---- MODULE Spec2Model ----
(***************************************************************************)
(* Model of the OCR web application: run_flask.main (engine pre-warming),  *)
(* webapp.upload with its background _worker thread, webapp.view, and      *)
(* ocr_extract.extract_pdf_text as driven by the worker.                   *)
(*                                                                         *)
(* The filesystem under UPLOADS_DIR is the only state shared between the   *)
(* request handlers and the worker threads; PRELOADED_READER is the only   *)
(* engine instance shared between workers.  Every blocking call of a       *)
(* handler or a worker that touches shared state is one action, so the     *)
(* interleavings of concurrent requests and threads are the behaviours.    *)
(***************************************************************************)
EXTENDS Integers, FiniteSets, Sequences, TLC

\* ------------------------------------------------------------------ bounds
MaxJobs == 2        \* number of POST /upload requests accepted in a run
NumUids == 2        \* size of the identifier space uuid4().hex[:12] draws from
MaxPages == 2       \* largest page count of an uploaded document
MaxDets == 2        \* most detections reader.readtext returns for a page
MaxRawLen == 3      \* longest languages form field, in symbols
MaxRejects == 1     \* number of POST /upload requests without a file in a run

\* --------------------------------------------------------------- constants
None == -1          \* Python's None, for a reader that is not there
Preloaded == 0      \* identity of the engine instance built by run_flask.main
Partial == -1       \* content of ocr.json between open() and the write

Jobs == 1..MaxJobs
UIDs == 1..NumUids
Langs == {"en", "fr"}
LangSets == (SUBSET Langs) \ {{}}
\* str(e) of the exception a pipeline call raised: it may be the empty string
Msgs == {"", "error"}

VARIABLES
    mainpc,            \* run_flask.main: "boot" before app.run, then "serving"
    preload_langs,     \* EASYOCR_LANGS as parsed by run_flask.main
    PRELOADED_READER,  \* webapp.PRELOADED_READER: None or the instance Preloaded
    njobs,             \* uploads accepted so far (jobs are numbered on arrival)
    upc,               \* upload(): position of the request handler of each job
    uid,               \* upload(): uid of each job (0 before it is drawn)
    langs,             \* upload(): languages of each job, as a set
    wpc,               \* _worker: position of the background thread of each job
    reader,            \* extract_pdf_text: engine instance the job runs on
    pages,             \* extract_pdf_text: len(pages_output) of each job
    fs,                \* UPLOADS_DIR: per uid the directory and its three files
    vpc,               \* view(): position of the status request in flight
    vuid,              \* view(): uid of the status request in flight
    vresp,             \* view(): the response it produced
    rejected,          \* upload(): requests answered 400 so far
    req,               \* upload(): one request's form and the options parsed
    ext,               \* _extract_page_text: one call, its input and locals
    pipe               \* extract_pdf_text: one call, its input and locals

vars == <<mainpc, preload_langs, PRELOADED_READER, njobs, upc, uid, langs,
          wpc, reader, pages, fs, vpc, vuid, vresp, rejected, req, ext, pipe>>

sysvars == <<mainpc, preload_langs, PRELOADED_READER, njobs, upc, uid, langs,
             wpc, reader, pages, fs>>
viewvars == <<vpc, vuid, vresp>>
auxvars == <<rejected, req, ext, pipe>>

\* ----------------------------------------------------------------- files
NoDoc == [exists |-> FALSE, by |-> 0, complete |-> FALSE]
NoJson == [exists |-> FALSE, by |-> 0, pages |-> Partial]
NoErr == [exists |-> FALSE, by |-> 0, msg |-> ""]
NoDir == [dir |-> FALSE, doc |-> NoDoc, json |-> NoJson, err |-> NoErr]

NoResp == [status |-> "None", pages |-> 0, msg |-> ""]

\* No call of the function in flight.
NoCall == [pc |-> "none"]

\* ------------------------------------------------------------------ startup
SysInit ==
    /\ mainpc = "boot"
    /\ preload_langs \in LangSets
    /\ PRELOADED_READER = None
    /\ njobs = 0
    /\ upc = [j \in Jobs |-> "idle"]
    /\ uid = [j \in Jobs |-> 0]
    /\ langs = [j \in Jobs |-> {}]
    /\ wpc = [j \in Jobs |-> "none"]
    /\ reader = [j \in Jobs |-> None]
    /\ pages = [j \in Jobs |-> 0]
    /\ fs = [u \in UIDs |-> NoDir]
    /\ vpc = "idle"
    /\ vuid = 0
    /\ vresp = NoResp
    /\ rejected = 0

Init ==
    /\ SysInit
    /\ req = NoCall
    /\ ext = NoCall
    /\ pipe = NoCall

\* Mutant of MainPreload: the exception of easyocr.Reader(...) is not caught
\* and the process ends before app.run.
MainPreload_Fatal(ok) ==
    /\ mainpc = "boot"
    /\ PRELOADED_READER' = IF ok THEN Preloaded ELSE None
    /\ mainpc' = IF ok THEN "serving" ELSE "exited"
    /\ UNCHANGED <<preload_langs, njobs, upc, uid, langs, wpc, reader, pages, fs>>
    /\ UNCHANGED <<viewvars, auxvars>>

\* run_flask.main: build the pre-warmed engine for preload_langs and attach it
\* to webapp; a failure is caught and logged; then app.run starts serving.
MainPreload(ok) ==
    /\ mainpc = "boot"
    /\ PRELOADED_READER' = IF ok THEN Preloaded ELSE None
    /\ mainpc' = "serving"
    /\ UNCHANGED <<preload_langs, njobs, upc, uid, langs, wpc, reader, pages, fs>>
    /\ UNCHANGED <<viewvars, auxvars>>

\* ------------------------------------------------------------------- upload
\* Mutant of UploadReject: the job directory is made before the file is
\* looked at.
UploadReject_AfterMkdir ==
    /\ mainpc = "serving"
    /\ rejected < MaxRejects
    /\ rejected' = rejected + 1
    /\ \E u \in UIDs : fs' = [fs EXCEPT ![u].dir = TRUE]
    /\ UNCHANGED <<mainpc, preload_langs, PRELOADED_READER, njobs, upc, uid,
                   langs, wpc, reader, pages>>
    /\ UNCHANGED <<viewvars, req, ext, pipe>>

\* upload(): request.files.get("pdf") is missing or empty: abort(400, ...)
\* answers the request before anything else is done.
UploadReject ==
    /\ mainpc = "serving"
    /\ rejected < MaxRejects
    /\ rejected' = rejected + 1
    /\ UNCHANGED <<sysvars, viewvars, req, ext, pipe>>

\* upload(): the file is there, options are parsed, the uid is drawn and the
\* job directory made: mkdir(parents=True, exist_ok=True) accepts a directory
\* that already exists.
UploadBegin(j, ls, u) ==
    /\ mainpc = "serving"
    /\ j = njobs + 1
    /\ j <= MaxJobs
    /\ njobs' = j
    /\ langs' = [langs EXCEPT ![j] = ls]
    /\ uid' = [uid EXCEPT ![j] = u]
    /\ fs' = [fs EXCEPT ![u].dir = TRUE]
    /\ upc' = [upc EXCEPT ![j] = "mkdir"]
    /\ UNCHANGED <<mainpc, preload_langs, PRELOADED_READER, wpc, reader, pages>>
    /\ UNCHANGED <<viewvars, auxvars>>

\* file.save(pdf_path), first half: open(pdf_path, "wb") creates or truncates
\* document.pdf.
UploadSaveOpen(j) ==
    /\ upc[j] = "mkdir"
    /\ fs' = [fs EXCEPT ![uid[j]].doc =
                 [exists |-> TRUE, by |-> j, complete |-> FALSE]]
    /\ upc' = [upc EXCEPT ![j] = "saving"]
    /\ UNCHANGED <<mainpc, preload_langs, PRELOADED_READER, njobs, uid, langs,
                   wpc, reader, pages>>
    /\ UNCHANGED <<viewvars, auxvars>>

\* file.save(pdf_path), second half: the bytes are written and the file closed.
UploadSaveDone(j) ==
    /\ upc[j] = "saving"
    /\ fs' = [fs EXCEPT ![uid[j]].doc =
                 [exists |-> TRUE, by |-> j, complete |-> TRUE]]
    /\ upc' = [upc EXCEPT ![j] = "saved"]
    /\ UNCHANGED <<mainpc, preload_langs, PRELOADED_READER, njobs, uid, langs,
                   wpc, reader, pages>>
    /\ UNCHANGED <<viewvars, auxvars>>

\* Mutant of UploadStart: the thread is started without the document saved.
UploadStart_Unsaved(j) ==
    /\ upc[j] = "mkdir"
    /\ wpc' = [wpc EXCEPT ![j] = "start"]
    /\ upc' = [upc EXCEPT ![j] = "started"]
    /\ UNCHANGED <<mainpc, preload_langs, PRELOADED_READER, njobs, uid, langs,
                   reader, pages, fs>>
    /\ UNCHANGED <<viewvars, auxvars>>

\* threading.Thread(target=_worker, ...).start()
UploadStart(j) ==
    /\ upc[j] = "saved"
    /\ wpc' = [wpc EXCEPT ![j] = "start"]
    /\ upc' = [upc EXCEPT ![j] = "started"]
    /\ UNCHANGED <<mainpc, preload_langs, PRELOADED_READER, njobs, uid, langs,
                   reader, pages, fs>>
    /\ UNCHANGED <<viewvars, auxvars>>

\* Mutant of UploadReturn: the handler joins the worker thread first.
UploadReturn_Join(j) ==
    /\ upc[j] = "started"
    /\ wpc[j] \in {"done", "failed"}
    /\ upc' = [upc EXCEPT ![j] = "returned"]
    /\ UNCHANGED <<mainpc, preload_langs, PRELOADED_READER, njobs, uid, langs,
                   wpc, reader, pages, fs>>
    /\ UNCHANGED <<viewvars, auxvars>>

\* return redirect(url_for("view", uid=uid)): the caller now holds the uid.
UploadReturn(j) ==
    /\ upc[j] = "started"
    /\ upc' = [upc EXCEPT ![j] = "returned"]
    /\ UNCHANGED <<mainpc, preload_langs, PRELOADED_READER, njobs, uid, langs,
                   wpc, reader, pages, fs>>
    /\ UNCHANGED <<viewvars, auxvars>>

\* ------------------------------------------------------------------- worker
\* Mutant of UsePreloaded: the pre-warmed reader is taken by every request
\* that has "en" among its languages.
UsePreloaded_AnyEn(j) ==
    /\ PRELOADED_READER # None
    /\ "en" \in langs[j]

\* _worker: the pre-warmed reader is taken when there is one and the request
\* asks for exactly {"en"}.
UsePreloaded(j) ==
    /\ PRELOADED_READER # None
    /\ langs[j] = {"en"}

\* The exception handler of _worker is entered: the locals of the pipeline
\* (reader, pages_output) are gone.
Raise(j) ==
    /\ wpc' = [wpc EXCEPT ![j] = "exc"]
    /\ reader' = [reader EXCEPT ![j] = None]
    /\ pages' = [pages EXCEPT ![j] = 0]

\* _worker up to extract_pdf_text's first line: reader = reader or
\* easyocr.Reader(list(languages), gpu=use_gpu); the construction may raise.
WorkerResolve(j, ok) ==
    /\ wpc[j] = "start"
    /\ IF UsePreloaded(j)
         THEN /\ reader' = [reader EXCEPT ![j] = PRELOADED_READER]
              /\ wpc' = [wpc EXCEPT ![j] = "open"]
              /\ pages' = pages
         ELSE IF ok
           THEN /\ reader' = [reader EXCEPT ![j] = j]
                /\ wpc' = [wpc EXCEPT ![j] = "open"]
                /\ pages' = pages
           ELSE Raise(j)
    /\ UNCHANGED <<mainpc, preload_langs, PRELOADED_READER, njobs, upc, uid,
                   langs, fs>>
    /\ UNCHANGED <<viewvars, auxvars>>

\* with fitz.open(pdf_path) as document: a document.pdf that is not completely
\* written cannot be opened; a complete one may still be no PDF.
WorkerOpen(j, ok) ==
    /\ wpc[j] = "open"
    /\ IF ok /\ fs[uid[j]].doc.exists /\ fs[uid[j]].doc.complete
         THEN /\ wpc' = [wpc EXCEPT ![j] = "loop"]
              /\ pages' = [pages EXCEPT ![j] = 0]
              /\ reader' = reader
         ELSE Raise(j)
    /\ UNCHANGED <<mainpc, preload_langs, PRELOADED_READER, njobs, upc, uid,
                   langs, fs>>
    /\ UNCHANGED <<viewvars, auxvars>>

\* for page_index, page in enumerate(document, start=1): the document has no
\* further page and extract_pdf_text returns pages_output.
WorkerReturn(j) ==
    /\ wpc[j] = "loop"
    /\ wpc' = [wpc EXCEPT ![j] = "ret"]
    /\ reader' = [reader EXCEPT ![j] = None]
    /\ UNCHANGED <<mainpc, preload_langs, PRELOADED_READER, njobs, upc, uid,
                   langs, pages, fs>>
    /\ UNCHANGED <<viewvars, auxvars>>

\* The document has a further page: _load_page_as_array rasterizes it (and may
\* raise), then _extract_page_text calls reader.readtext.
WorkerPage(j, ok) ==
    /\ wpc[j] = "loop"
    /\ pages[j] < MaxPages
    /\ IF ok
         THEN /\ wpc' = [wpc EXCEPT ![j] = "readtext"]
              /\ UNCHANGED <<reader, pages>>
         ELSE Raise(j)
    /\ UNCHANGED <<mainpc, preload_langs, PRELOADED_READER, njobs, upc, uid,
                   langs, fs>>
    /\ UNCHANGED <<viewvars, auxvars>>

\* reader.readtext returns (or raises); the page's entries are appended to
\* pages_output.
WorkerReadtext(j, ok) ==
    /\ wpc[j] = "readtext"
    /\ IF ok
         THEN /\ wpc' = [wpc EXCEPT ![j] = "loop"]
              /\ pages' = [pages EXCEPT ![j] = pages[j] + 1]
              /\ reader' = reader
         ELSE Raise(j)
    /\ UNCHANGED <<mainpc, preload_langs, PRELOADED_READER, njobs, upc, uid,
                   langs, fs>>
    /\ UNCHANGED <<viewvars, auxvars>>

\* (out_dir / "ocr.json").write_text(json.dumps(pages, indent=2)), first half:
\* open(..., "w") creates or truncates ocr.json.
WorkerOpenJson(j) ==
    /\ wpc[j] = "ret"
    /\ fs' = [fs EXCEPT ![uid[j]].json =
                 [exists |-> TRUE, by |-> j, pages |-> Partial]]
    /\ wpc' = [wpc EXCEPT ![j] = "wjson"]
    /\ UNCHANGED <<mainpc, preload_langs, PRELOADED_READER, njobs, upc, uid,
                   langs, reader, pages>>
    /\ UNCHANGED <<viewvars, auxvars>>

\* write_text, second half: the JSON text of pages_output is written.
WorkerWriteJson(j) ==
    /\ wpc[j] = "wjson"
    /\ fs' = [fs EXCEPT ![uid[j]].json =
                 [exists |-> TRUE, by |-> j, pages |-> pages[j]]]
    /\ wpc' = [wpc EXCEPT ![j] = "done"]
    /\ pages' = [pages EXCEPT ![j] = 0]
    /\ UNCHANGED <<mainpc, preload_langs, PRELOADED_READER, njobs, upc, uid,
                   langs, reader>>
    /\ UNCHANGED <<viewvars, auxvars>>

\* Mutant of WorkerOpenErr: the exception is not caught and the thread dies.
WorkerOpenErr_Uncaught(j) ==
    /\ wpc[j] = "exc"
    /\ wpc' = [wpc EXCEPT ![j] = "dead"]
    /\ UNCHANGED <<mainpc, preload_langs, PRELOADED_READER, njobs, upc, uid,
                   langs, reader, pages, fs>>
    /\ UNCHANGED <<viewvars, auxvars>>

\* except Exception as e: (out_dir / "error.txt").write_text(str(e)), first
\* half: open(..., "w") creates or truncates error.txt.
WorkerOpenErr(j) ==
    /\ wpc[j] = "exc"
    /\ fs' = [fs EXCEPT ![uid[j]].err =
                 [exists |-> TRUE, by |-> j, msg |-> ""]]
    /\ wpc' = [wpc EXCEPT ![j] = "werr"]
    /\ UNCHANGED <<mainpc, preload_langs, PRELOADED_READER, njobs, upc, uid,
                   langs, reader, pages>>
    /\ UNCHANGED <<viewvars, auxvars>>

\* write_text, second half: str(e) is written, whatever it is.
WorkerWriteErr(j, m) ==
    /\ wpc[j] = "werr"
    /\ fs' = [fs EXCEPT ![uid[j]].err =
                 [exists |-> TRUE, by |-> j, msg |-> m]]
    /\ wpc' = [wpc EXCEPT ![j] = "failed"]
    /\ UNCHANGED <<mainpc, preload_langs, PRELOADED_READER, njobs, upc, uid,
                   langs, reader, pages>>
    /\ UNCHANGED <<viewvars, auxvars>>

WorkerStep(j) ==
    \/ \E ok \in BOOLEAN : WorkerResolve(j, ok)
    \/ \E ok \in BOOLEAN : WorkerOpen(j, ok)
    \/ WorkerReturn(j)
    \/ \E ok \in BOOLEAN : WorkerPage(j, ok)
    \/ \E ok \in BOOLEAN : WorkerReadtext(j, ok)
    \/ WorkerOpenJson(j)
    \/ WorkerWriteJson(j)
    \/ WorkerOpenErr(j)
    \/ \E m \in Msgs : WorkerWriteErr(j, m)

UploadStep(j) ==
    \/ \E ls \in LangSets, u \in UIDs : UploadBegin(j, ls, u)
    \/ UploadSaveOpen(j)
    \/ UploadSaveDone(j)
    \/ UploadStart(j)
    \/ UploadReturn(j)

\* --------------------------------------------------------------------- view
\* Mutant of DocMissing: the job directory is tested, not the document.
DocMissing_Dir(u) == ~fs[u].dir

\* view(): if not pdf_path.exists(): abort(404)
DocMissing(u) == ~fs[u].doc.exists

\* view(): if not json_path.exists(): ... processing page
JsonMissing(u) == ~fs[u].json.exists

\* view(): error_msg = err_path.read_text() if err_path.exists() else None;
\* the processing page carries the error when there is one.
ProcessingPage(u) ==
    IF fs[u].err.exists
      THEN [status |-> "Failed", pages |-> 0, msg |-> fs[u].err.msg]
      ELSE [status |-> "Processing", pages |-> 0, msg |-> ""]

\* view(): pages = json.loads(json_path.read_text()); a text that is not yet
\* written is no JSON and json.loads raises (the request fails, HTTP 500).
ResultPage(u) ==
    IF fs[u].json.pages = Partial
      THEN [status |-> "Error", pages |-> 0, msg |-> ""]
      ELSE [status |-> "Done", pages |-> fs[u].json.pages, msg |-> ""]

NotFoundPage == [status |-> "NotFound", pages |-> 0, msg |-> ""]

\* What view(uid) answers when it runs with no other step in between.
Answer(u) ==
    IF DocMissing(u) THEN NotFoundPage
    ELSE IF JsonMissing(u) THEN ProcessingPage(u)
    ELSE ResultPage(u)

Status(u) == Answer(u).status

\* GET /view/<uid> arrives; pdf_path.exists() is evaluated.
ViewLookup(u) ==
    /\ mainpc = "serving"
    /\ vpc = "idle"
    /\ vuid' = u
    /\ IF DocMissing(u)
         THEN vpc' = "resp" /\ vresp' = NotFoundPage
         ELSE vpc' = "json" /\ vresp' = vresp
    /\ UNCHANGED <<sysvars, auxvars>>

\* json_path.exists() is evaluated.
ViewCheckJson ==
    /\ vpc = "json"
    /\ vpc' = IF JsonMissing(vuid) THEN "err" ELSE "read"
    /\ UNCHANGED <<vuid, vresp>>
    /\ UNCHANGED <<sysvars, auxvars>>

\* error.txt is looked for and read; the processing page is rendered (202).
ViewProcessing ==
    /\ vpc = "err"
    /\ vresp' = ProcessingPage(vuid)
    /\ vpc' = "resp"
    /\ UNCHANGED vuid
    /\ UNCHANGED <<sysvars, auxvars>>

\* ocr.json is read and parsed; the result page is rendered.
ViewRead ==
    /\ vpc = "read"
    /\ vresp' = ResultPage(vuid)
    /\ vpc' = "resp"
    /\ UNCHANGED vuid
    /\ UNCHANGED <<sysvars, auxvars>>

\* The response has been sent; the next status request may arrive.
ViewEnd ==
    /\ vpc = "resp"
    /\ vpc' = "idle"
    /\ vuid' = 0
    /\ vresp' = NoResp
    /\ UNCHANGED <<sysvars, auxvars>>

ViewStep ==
    \/ \E u \in UIDs : ViewLookup(u)
    \/ ViewCheckJson
    \/ ViewProcessing
    \/ ViewRead
    \/ ViewEnd

Next ==
    \/ \E ok \in BOOLEAN : MainPreload(ok)
    \/ UploadReject
    \/ \E j \in Jobs : UploadStep(j)
    \/ \E j \in Jobs : WorkerStep(j)

Spec == Init /\ [][Next]_vars

\* The system together with a caller that polls GET /view/<uid>; every job
\* asks for the default languages, which view() never looks at.
InitView == Init /\ preload_langs = {"en"}

NextView ==
    \/ \E ok \in BOOLEAN : MainPreload(ok)
    \/ \E j \in Jobs, u \in UIDs : UploadBegin(j, {"en"}, u)
    \/ \E j \in Jobs :
          UploadSaveOpen(j) \/ UploadSaveDone(j) \/ UploadStart(j) \/ UploadReturn(j)
    \/ \E j \in Jobs : WorkerStep(j)
    \/ ViewStep

SpecView == InitView /\ [][NextView]_vars

\* ---------------------------------------------------------- extract_pdf_text
\* One call of extract_pdf_text on its own.  A page of the document is given
\* by what the two calls of the loop body do with it: "blank" and "text"
\* pages rasterize and yield 0 or 1 items, "noraster" makes
\* _load_page_as_array raise, "noread" makes _extract_page_text raise.
PageKinds == {"blank", "text", "noraster", "noread"}

\* Seq(S) up to length n.
SeqsUpTo(S, n) == UNION {[1..k -> S] : k \in 0..n}

Documents == SeqsUpTo(PageKinds, MaxPages)

\* len(entries) of a page that went through the loop body.
ItemsOf(kind) == IF kind = "text" THEN 1 ELSE 0

\* The call is made: document is what pdf_path holds, engine_ok whether
\* easyocr.Reader(...) can be built, open_ok whether fitz.open succeeds.
InitPipeline ==
    /\ SysInit
    /\ preload_langs = {"en"}
    /\ req = NoCall
    /\ ext = NoCall
    /\ \E d \in Documents, e \in BOOLEAN, o \in BOOLEAN :
          pipe = [pc |-> "call", document |-> d, engine_ok |-> e, open_ok |-> o,
                  handle |-> "none", page_index |-> 0, pages_output |-> <<>>]

\* reader = reader or easyocr.Reader(...); pages_output = []
PipeReader ==
    /\ pipe.pc = "call"
    /\ pipe' = [pipe EXCEPT !.pc = IF pipe.engine_ok THEN "open" ELSE "raised"]
    /\ UNCHANGED <<sysvars, viewvars, rejected, req, ext>>

\* with fitz.open(pdf_path) as document: a failing open raises before there
\* is a handle.
PipeOpen ==
    /\ pipe.pc = "open"
    /\ pipe' = IF pipe.open_ok
                 THEN [pipe EXCEPT !.pc = "loop", !.handle = "open"]
                 ELSE [pipe EXCEPT !.pc = "raised"]
    /\ UNCHANGED <<sysvars, viewvars, rejected, req, ext>>

\* Mutant of PipePage: pages are numbered from 0 (enumerate without start=1).
PipePage_FromZero ==
    /\ pipe.pc = "loop"
    /\ pipe.page_index < Len(pipe.document)
    /\ LET kind == pipe.document[pipe.page_index + 1]
       IN  pipe' = IF kind \in {"noraster", "noread"}
                     THEN [pipe EXCEPT !.pc = "raised", !.handle = "closed"]
                     ELSE [pipe EXCEPT
                             !.page_index = pipe.page_index + 1,
                             !.pages_output = Append(pipe.pages_output,
                                 [page |-> pipe.page_index,
                                  items |-> ItemsOf(kind)])]
    /\ UNCHANGED <<sysvars, viewvars, rejected, req, ext>>

\* Mutant of PipePage: the document is opened without "with", so an exception
\* in the loop body leaves the handle open.
PipePage_NoWith ==
    /\ pipe.pc = "loop"
    /\ pipe.page_index < Len(pipe.document)
    /\ LET kind == pipe.document[pipe.page_index + 1]
       IN  pipe' = IF kind \in {"noraster", "noread"}
                     THEN [pipe EXCEPT !.pc = "raised"]
                     ELSE [pipe EXCEPT
                             !.page_index = pipe.page_index + 1,
                             !.pages_output = Append(pipe.pages_output,
                                 [page |-> pipe.page_index + 1,
                                  items |-> ItemsOf(kind)])]
    /\ UNCHANGED <<sysvars, viewvars, rejected, req, ext>>

\* One turn of "for page_index, page in enumerate(document, start=1)":
\* page_index counts the pages taken so far, the page taken now has the next
\* number; an exception of the body leaves the with block, which closes the
\* document.
PipePage ==
    /\ pipe.pc = "loop"
    /\ pipe.page_index < Len(pipe.document)
    /\ LET kind == pipe.document[pipe.page_index + 1]
       IN  pipe' = IF kind \in {"noraster", "noread"}
                     THEN [pipe EXCEPT !.pc = "raised", !.handle = "closed"]
                     ELSE [pipe EXCEPT
                             !.page_index = pipe.page_index + 1,
                             !.pages_output = Append(pipe.pages_output,
                                 [page |-> pipe.page_index + 1,
                                  items |-> ItemsOf(kind)])]
    /\ UNCHANGED <<sysvars, viewvars, rejected, req, ext>>

\* The loop is exhausted: the with block closes the document and
\* pages_output is returned.
PipeReturn ==
    /\ pipe.pc = "loop"
    /\ pipe.page_index = Len(pipe.document)
    /\ pipe' = [pipe EXCEPT !.pc = "returned", !.handle = "closed"]
    /\ UNCHANGED <<sysvars, viewvars, rejected, req, ext>>

NextPipeline == PipeReader \/ PipeOpen \/ PipePage \/ PipeReturn

SpecPipeline == InitPipeline /\ [][NextPipeline]_vars

\* -------------------------------------------------------- _extract_page_text
\* One call of _extract_page_text on its own.  Confidences and thresholds are
\* floats, written in tenths (5 is 0.5); NaN is the float that is neither
\* below nor above any other.
NaN == -999

\* Mutant of FloatLt: a detection at the threshold is dropped too.
FloatLt_OrEqual(a, b) == a # NaN /\ b # NaN /\ a <= b

\* a < b and a >= b on floats: both are false when either side is NaN.
FloatLt(a, b) == a # NaN /\ b # NaN /\ a < b
FloatGe(a, b) == a # NaN /\ b # NaN /\ a >= b

\* The third element of a detection, as the engine hands it over: a Python or
\* numpy float, a str that is no number, or a numpy array of two elements.
Confidences ==
    [kind : {"float"}, v : {2, 5, 10}] \cup [kind : {"str", "ndarray"}, v : {0}]

\* float(confidence) raises for the str and for the array of two elements.
FloatFails(c) == c.kind \in {"str", "ndarray"}

\* hasattr(confidence, "item")
HasItem(c) == c.kind = "ndarray"

\* confidence.item() of an array of more than one element raises ValueError.
ItemFails(c) == c.kind = "ndarray"

\* Lines 42-45 raise when the fallback in the except branch raises itself.
ConfidenceRaises(c) == FloatFails(c) /\ HasItem(c) /\ ItemFails(c)

\* conf_f of lines 42-45, when they do not raise.
ConfF(c) == IF ~FloatFails(c) THEN c.v ELSE 0

\* Texts are sequences of characters.
Texts == {<<"a">>, <<" ", "a", " ">>, <<" ">>}

RECURSIVE LStrip(_)
LStrip(t) ==
    IF t = <<>> THEN t
    ELSE IF Head(t) = " " THEN LStrip(Tail(t)) ELSE t

RECURSIVE RStrip(_)
RStrip(t) ==
    IF t = <<>> THEN t
    ELSE IF t[Len(t)] = " " THEN RStrip(SubSeq(t, 1, Len(t) - 1)) ELSE t

\* str(text).strip()
Strip(t) == RStrip(LStrip(t))

\* A point of a quad: a sequence of coordinates, a bare number, or None.
Pt(x, y) == [kind |-> "seq", c |-> <<x, y>>]
Quads ==
    { <<Pt(0, 0), Pt(1, 0), Pt(1, 1), Pt(0, 1)>>,
      <<[kind |-> "seq", c |-> <<0, 0, 0>>], Pt(1, 0), Pt(1, 1), Pt(0, 1)>>,
      <<[kind |-> "scalar", c |-> <<0>>], Pt(1, 0), Pt(1, 1), Pt(0, 1)>>,
      <<[kind |-> "none", c |-> <<>>], Pt(1, 0), Pt(1, 1), Pt(0, 1)>> }

\* "x, y = pt" works for every point of the quad (lines 52-54).
UnpacksAsPairs(bbox) ==
    \A k \in 1..Len(bbox) : bbox[k].kind = "seq" /\ Len(bbox[k].c) = 2

\* The fallback of lines 55-57 raises on float(None).
BboxRaises(bbox) ==
    /\ ~UnpacksAsPairs(bbox)
    /\ \E k \in 1..Len(bbox) : bbox[k].kind = "none"

\* py_bbox: by either path every point becomes the list of its coordinates, a
\* bare number a list of one.
PyBbox(bbox) == [k \in 1..Len(bbox) |-> bbox[k].c]

Detections == [confidence : Confidences, text : Texts, bbox : Quads]

\* min_confidence: a real number, also outside [0, 1].
Thresholds == {-10, 0, 5, 12}

InitExtract ==
    /\ SysInit
    /\ preload_langs = {"en"}
    /\ req = NoCall
    /\ pipe = NoCall
    /\ \E r \in SeqsUpTo(Detections, MaxDets), m \in Thresholds :
          ext = [pc |-> "loop", raw |-> r, min_confidence |-> m, i |-> 0,
                 results |-> <<>>]

\* One turn of "for bbox, text, confidence in reader.readtext(image_array)":
\* the confidence is coerced, the detection is skipped when it is below the
\* threshold or blank, else its quad is normalized and the entry appended.
\* An exception of either fallback leaves the function.
ExtractTurn ==
    /\ ext.pc = "loop"
    /\ ext.i < Len(ext.raw)
    /\ LET d == ext.raw[ext.i + 1]
           conf_f == ConfF(d.confidence)
       IN  ext' =
             IF ConfidenceRaises(d.confidence)
               THEN [ext EXCEPT !.pc = "raised"]
             ELSE IF FloatLt(conf_f, ext.min_confidence) \/ Strip(d.text) = <<>>
               THEN [ext EXCEPT !.i = ext.i + 1]
             ELSE IF BboxRaises(d.bbox)
               THEN [ext EXCEPT !.pc = "raised"]
             ELSE [ext EXCEPT
                     !.i = ext.i + 1,
                     !.results = Append(ext.results,
                         [text |-> Strip(d.text), confidence |-> conf_f,
                          bbox |-> PyBbox(d.bbox)])]
    /\ UNCHANGED <<sysvars, viewvars, rejected, req, pipe>>

\* return results
ExtractReturn ==
    /\ ext.pc = "loop"
    /\ ext.i = Len(ext.raw)
    /\ ext' = [ext EXCEPT !.pc = "returned"]
    /\ UNCHANGED <<sysvars, viewvars, rejected, req, pipe>>

NextExtract == ExtractTurn \/ ExtractReturn

SpecExtract == InitExtract /\ [][NextExtract]_vars

\* ------------------------------------------------- upload(): option parsing
\* The part of upload() between the file test and the uid: the three form
\* fields are parsed into the options of the job.  A field is there or not;
\* the languages field is a sequence of symbols (a language code, a comma or
\* a blank), dpi and min_conf are strings.
DefaultDpi == 300
DefaultMinConf == 2

Absent == [present |-> FALSE, s |-> <<>>]
AbsentStr == [present |-> FALSE, s |-> ""]
Field(v) == [present |-> TRUE, s |-> v]

LangSymbols == {"en", "fr", ",", " "}
LanguageFields == {Absent} \cup {Field(v) : v \in SeqsUpTo(LangSymbols, MaxRawLen)}

\* int(s) for the strings it accepts; every other string raises ValueError.
IntOf == ("300" :> 300) @@ ("72" :> 72) @@ ("0" :> 0) @@ ("-5" :> -5) @@ (" 150 " :> 150)
DpiFields == {AbsentStr} \cup {Field(v) : v \in DOMAIN IntOf \cup {"", "abc", "1.5"}}

\* float(s), in tenths, for the strings it accepts; every other string raises.
FloatOf ==
    ("0.2" :> 2) @@ ("0" :> 0) @@ ("1" :> 10) @@ ("0.5" :> 5) @@ ("1.5" :> 15)
    @@ ("-1" :> -10) @@ ("nan" :> NaN)
MinConfFields == {AbsentStr} \cup {Field(v) : v \in DOMAIN FloatOf \cup {"", "abc", "0,5"}}

\* value.split(",")
RECURSIVE Split(_)
Split(s) ==
    IF \A k \in 1..Len(s) : s[k] # "," THEN <<s>>
    ELSE LET k == CHOOSE n \in 1..Len(s) :
                      s[n] = "," /\ \A m \in 1..(n - 1) : s[m] # ","
         IN  <<SubSeq(s, 1, k - 1)>> \o Split(SubSeq(s, k + 1, Len(s)))

\* [p.strip() for p in parts if p.strip()]
RECURSIVE StripNonEmpty(_)
StripNonEmpty(parts) ==
    IF parts = <<>> THEN <<>>
    ELSE IF Strip(Head(parts)) = <<>> THEN StripNonEmpty(Tail(parts))
    ELSE <<Strip(Head(parts))>> \o StripNonEmpty(Tail(parts))

\* _parse_languages(request.form.get("languages")): a field that is absent or
\* empty counts as "en", and so does a value without any code in it.
ParseLanguages(f) ==
    LET value == Strip(IF ~f.present \/ f.s = <<>> THEN <<"en">> ELSE f.s)
        parsed == StripNonEmpty(Split(value))
    IN  IF parsed = <<>> THEN << <<"en">> >> ELSE parsed

\* try: dpi = int(request.form.get("dpi", 300)) except Exception: dpi = 300
ParseDpi(f) ==
    IF ~f.present THEN DefaultDpi
    ELSE IF f.s \in DOMAIN IntOf THEN IntOf[f.s] ELSE DefaultDpi

\* try: min_conf = float(request.form.get("min_conf", 0.2))
\* except Exception: min_conf = 0.2
ParseMinConf(f) ==
    IF ~f.present THEN DefaultMinConf
    ELSE IF f.s \in DOMAIN FloatOf THEN FloatOf[f.s] ELSE DefaultMinConf

InitOptions ==
    /\ SysInit
    /\ preload_langs = {"en"}
    /\ ext = NoCall
    /\ pipe = NoCall
    /\ \E l \in LanguageFields, d \in DpiFields, m \in MinConfFields :
          req = [pc |-> "languages",
                 form |-> [languages |-> l, dpi |-> d, min_conf |-> m],
                 languages |-> <<>>, dpi |-> 0, min_conf |-> 0]

OptLanguages ==
    /\ req.pc = "languages"
    /\ req' = [req EXCEPT !.pc = "dpi",
                          !.languages = ParseLanguages(req.form.languages)]
    /\ UNCHANGED <<sysvars, viewvars, rejected, ext, pipe>>

OptDpi ==
    /\ req.pc = "dpi"
    /\ req' = [req EXCEPT !.pc = "min_conf", !.dpi = ParseDpi(req.form.dpi)]
    /\ UNCHANGED <<sysvars, viewvars, rejected, ext, pipe>>

OptMinConf ==
    /\ req.pc = "min_conf"
    /\ req' = [req EXCEPT !.pc = "parsed",
                          !.min_conf = ParseMinConf(req.form.min_conf)]
    /\ UNCHANGED <<sysvars, viewvars, rejected, ext, pipe>>

NextOptions == OptLanguages \/ OptDpi \/ OptMinConf

SpecOptions == InitOptions /\ [][NextOptions]_vars

\* ------------------------------------------------------------------ claims
\* The worker of job j has not left extract_pdf_text yet.
InPipeline(j) == wpc[j] \in {"none", "start", "open", "loop", "readtext"}

\* The worker of job j has written its terminal artifact.
Terminal(j) == wpc[j] \in {"done", "failed"}

\* No two jobs have drawn the same uid.
DistinctUids ==
    \A i, j \in Jobs : (i # j /\ uid[i] # 0 /\ uid[j] # 0) => uid[i] # uid[j]

\* C1: for every job, ocr.json and error.txt are never both present in the
\* job's workspace, neither is present while the job's worker is still inside
\* the pipeline, and once the job is terminal exactly one of them is present.
C1_ExactlyOneArtifact ==
    \A j \in Jobs : uid[j] # 0 =>
        LET d == fs[uid[j]] IN
        /\ ~(d.json.exists /\ d.err.exists)
        /\ InPipeline(j) => (~d.json.exists /\ ~d.err.exists)
        /\ Terminal(j) => (d.json.exists # d.err.exists)

\* C1, as far as it goes: it holds in every state in which no two jobs share
\* a uid.
C1_UnlessSharedWorkspace == DistinctUids => C1_ExactlyOneArtifact

\* A step of view() that produces the response.
Responds == vpc # "resp" /\ vpc' = "resp"

C3_ReuseOnlyOnExactMatch ==
    \A j \in Jobs : reader[j] # None =>
        /\ reader[j] = Preloaded => langs[j] = preload_langs
        /\ reader[j] # Preloaded => reader[j] = j

\* C4: at most one worker at a time is inside readtext on the pre-warmed
\* engine instance.
C4_OneInferenceOnShared ==
    Cardinality({j \in Jobs : wpc[j] = "readtext" /\ reader[j] = Preloaded}) <= 1

\* A step creates or truncates ocr.json (error.txt) of workspace u.
OpensJson(u) == fs'[u].json # fs[u].json /\ fs'[u].json.pages = Partial
OpensErr(u) == fs'[u].err.exists /\ fs'[u].err.by # fs[u].err.by

\* C5: Done stays Done, Failed stays Failed, and no step opens a terminal
\* artifact of a workspace that already holds one.
C5_TerminalIsFinal ==
    [][\A u \in UIDs :
         /\ Status(u) = "Done" => Status(u)' = "Done"
         /\ Status(u) = "Failed" => Status(u)' = "Failed"
         /\ (OpensJson(u) \/ OpensErr(u)) =>
                (~fs[u].json.exists /\ ~fs[u].err.exists)]_vars

\* C5, as far as it goes: it holds of every step that ends with no two jobs
\* sharing a uid.
C5_UnlessSharedWorkspace ==
    [][DistinctUids' =>
         \A u \in UIDs :
           /\ Status(u) = "Done" => Status(u)' = "Done"
           /\ Status(u) = "Failed" => Status(u)' = "Failed"
           /\ (OpensJson(u) \/ OpensErr(u)) =>
                  (~fs[u].json.exists /\ ~fs[u].err.exists)]_vars

\* C6: every job whose worker has been started eventually has its terminal
\* artifact written and a status of Done or Failed.
C6_EventuallyTerminal ==
    \A j \in Jobs :
        (wpc[j] = "start") ~>
            (Terminal(j) /\ Status(uid[j]) \in {"Done", "Failed"})

\* C6 witness: a worker has finished and the status of its job is terminal.
C6_Witness ==
    \E j \in Jobs : Terminal(j) /\ Status(uid[j]) \in {"Done", "Failed"}

\* C7: a job whose pipeline raised ends Failed with a non-empty message, and
\* no result artifact is ever present in its workspace.
C7_FailureLeavesOnlyError ==
    \A j \in Jobs :
        /\ wpc[j] \in {"exc", "werr", "failed"} => ~fs[uid[j]].json.exists
        /\ wpc[j] = "failed" =>
               (Status(uid[j]) = "Failed" /\ fs[uid[j]].err.msg # "")

\* C8, as claimed: in the state where upload() returns, no terminal artifact
\* of the job exists and a status query answers Processing.
C8_ReturnsBeforeOcr ==
    [][\A j \in Jobs :
         (upc[j] = "started" /\ upc'[j] = "returned") =>
             /\ ~fs'[uid[j]].json.exists
             /\ ~fs'[uid[j]].err.exists
             /\ Status(uid[j])' = "Processing"]_vars

\* C8, amended: once the worker thread is started, upload()'s return waits for
\* no step of the worker; after it the status is never NotFound, and it is
\* Processing as long as the workspace holds no terminal artifact.
C8_ReturnDoesNotWait ==
    \A j \in Jobs :
        /\ upc[j] = "started" => ENABLED UploadReturn(j)
        /\ upc[j] = "returned" =>
               /\ Status(uid[j]) # "NotFound"
               /\ (~fs[uid[j]].json.exists /\ ~fs[uid[j]].err.exists)
                      => Status(uid[j]) = "Processing"

\* C8 witness: upload() is about to return and the worker of the only job of
\* the workspace has already written its terminal artifact.
C8_Witness ==
    \E j \in Jobs :
        /\ upc[j] = "started"
        /\ Terminal(j)
        /\ DistinctUids
        /\ ENABLED UploadReturn(j)

\* C9: once the worker is scheduled or the uid returned, the workspace exists
\* and holds the document, completely written by the job that saved it last;
\* so the status is never NotFound and no worker opens a missing document.
C9_PersistedBeforeScheduled ==
    \A j \in Jobs :
        (upc[j] \in {"started", "returned"} \/ wpc[j] # "none") =>
            LET d == fs[uid[j]] IN
            /\ d.dir
            /\ d.doc.exists
            /\ d.doc.by = j => d.doc.complete
            /\ Status(uid[j]) # "NotFound"

\* C9 witness: the uid has been returned and the worker is about to open the
\* completely written document.
C9_Witness ==
    \E j \in Jobs :
        /\ upc[j] = "returned"
        /\ wpc[j] = "open"
        /\ fs[uid[j]].doc.by = j
        /\ fs[uid[j]].doc.complete

\* C10: every job has a uid different from the uid of every other job, and
\* no upload begins in a workspace that exists already.
C10_FreshUid ==
    [][\A j \in Jobs :
         (upc[j] = "idle" /\ upc'[j] = "mkdir") =>
             /\ ~fs[uid'[j]].dir
             /\ \A i \in Jobs : (i # j /\ uid[i] # 0) => uid[i] # uid'[j]]_vars

\* C11: a call of extract_pdf_text that returns for a document of n pages
\* (n >= 0) returns exactly n elements, and the i-th of them carries page
\* number i: the numbers are 1..n in the order of the document.
C11_PagesNumberedInOrder ==
    pipe.pc = "returned" =>
        /\ Len(pipe.pages_output) = Len(pipe.document)
        /\ \A i \in 1..Len(pipe.pages_output) : pipe.pages_output[i].page = i

\* A document of MaxPages pages went through and its last page has items.
C11_Witness ==
    /\ pipe.pc = "returned"
    /\ Len(pipe.document) = MaxPages
    /\ pipe.pages_output[MaxPages] = [page |-> MaxPages, items |-> 1]

\* C18: the document handle lives inside the call: it is open only while the
\* loop runs, and on every exit of extract_pdf_text, by return or by an
\* exception of any page, no handle is left open.
C18_HandleScoped ==
    /\ pipe.pc \in {"returned", "raised"} => pipe.handle # "open"
    /\ pipe.handle = "open" => pipe.pc = "loop"

\* The call raised on a page after the first one, and the handle it had
\* opened is closed.
C18_Witness ==
    /\ pipe.pc = "raised"
    /\ pipe.page_index >= 1
    /\ pipe.handle = "closed"

\* A detection as the engine documents it: a float confidence in [0, 1] and a
\* quad of four (x, y) points.
WellFormed(d) ==
    /\ d.confidence.kind = "float"
    /\ FloatGe(d.confidence.v, 0) /\ FloatGe(10, d.confidence.v)
    /\ UnpacksAsPairs(d.bbox)

\* The claim's selection: confidence >= min_confidence and text not blank.
Kept(d, m) == FloatGe(d.confidence.v, m) /\ Strip(d.text) # <<>>

\* The subsequence of the kept detections, each as the entry made of it.
RECURSIVE KeptEntries(_, _)
KeptEntries(r, m) ==
    IF r = <<>> THEN <<>>
    ELSE LET rest == KeptEntries(Tail(r), m)
             d == Head(r)
         IN  IF Kept(d, m)
               THEN <<[text |-> Strip(d.text), confidence |-> d.confidence.v,
                       bbox |-> PyBbox(d.bbox)]>> \o rest
               ELSE rest

\* C12: for every sequence of detections of the engine and every
\* min_confidence, the entries returned are exactly the detections with
\* confidence >= min_confidence and non-blank text, in their order, equality
\* kept, each with confidence in [min_confidence, 1].
C12_FilterExact ==
    (ext.pc = "returned" /\ \A k \in 1..Len(ext.raw) : WellFormed(ext.raw[k])) =>
        /\ ext.results = KeptEntries(ext.raw, ext.min_confidence)
        /\ \A k \in 1..Len(ext.results) :
              /\ FloatGe(ext.results[k].confidence, ext.min_confidence)
              /\ FloatGe(10, ext.results[k].confidence)
              /\ ext.results[k].text # <<>>

\* Of well-formed detections the first, with confidence equal to the
\* threshold, is kept and a later one is dropped.
C12_BoundaryKept ==
    /\ ext.pc = "returned"
    /\ Len(ext.raw) = MaxDets
    /\ \A k \in 1..Len(ext.raw) : WellFormed(ext.raw[k])
    /\ ext.raw[1].confidence.v = ext.min_confidence
    /\ Len(ext.results) >= 1
    /\ Len(ext.results) < Len(ext.raw)
    /\ ext.results[1].confidence = ext.min_confidence

\* C17: _extract_page_text never raises on malformed engine output: whatever
\* the confidence and the quad points of a detection are, the call goes on to
\* return.
C17_NeverRaises == ext.pc # "raised"

\* Without a malformed detection that is taken through a raising fallback the
\* call returns: a str confidence counts as 0.0, a point of three coordinates
\* or a bare number is normalized element-wise.
C17_FallbacksThatWork ==
    (\A k \in 1..Len(ext.raw) :
        /\ ext.raw[k].confidence.kind # "ndarray"
        /\ \A n \in 1..Len(ext.raw[k].bbox) : ext.raw[k].bbox[n].kind # "none")
    => ext.pc # "raised"

\* int(...) or float(...) of the field raises, or the field is absent.
DpiMalformed(f) == ~f.present \/ f.s \notin DOMAIN IntOf
MinConfMalformed(f) == ~f.present \/ f.s \notin DOMAIN FloatOf

\* C13: whatever the form values of an accepted job, the parsed options
\* satisfy the Job data model (languages non-empty, dpi a positive integer,
\* min_confidence in [0, 1]), and a malformed dpi or min_confidence is
\* replaced by its default, 300 or 0.2.
C13_OptionsInDataModel ==
    req.pc = "parsed" =>
        /\ req.languages # <<>>
        /\ req.dpi > 0
        /\ FloatGe(req.min_conf, 0) /\ FloatGe(10, req.min_conf)
        /\ DpiMalformed(req.form.dpi) => req.dpi = DefaultDpi
        /\ MinConfMalformed(req.form.min_conf) => req.min_conf = DefaultMinConf

\* What upload() does guarantee: at least one language, none of them blank,
\* and the defaults for values that int() and float() do not accept.
C13_LanguagesAndDefaults ==
    req.pc = "parsed" =>
        /\ req.languages # <<>>
        /\ \A k \in 1..Len(req.languages) : Strip(req.languages[k]) # <<>>
        /\ DpiMalformed(req.form.dpi) => req.dpi = DefaultDpi
        /\ MinConfMalformed(req.form.min_conf) => req.min_conf = DefaultMinConf

\* The worker of job j leaves the first line of extract_pdf_text: its reader
\* is settled.
Resolves(j) == wpc[j] = "start" /\ wpc'[j] # "start"

\* C14: while the engine pre-warmed for exactly {"en"} is there, a job that
\* asks for exactly {"en"} gets that very instance and constructs none (so
\* two such jobs share the one instance), and a job that asks for
\* {"en", "fr"} does not get it: it constructs an instance of its own.
C14_PrewarmedForEnOnly ==
    [][\A j \in Jobs :
         (Resolves(j) /\ PRELOADED_READER = Preloaded /\ preload_langs = {"en"}) =>
            /\ langs[j] = {"en"} =>
                  (reader'[j] = PRELOADED_READER /\ wpc'[j] = "open")
            /\ langs[j] = {"en", "fr"} =>
                  (reader'[j] # PRELOADED_READER /\ reader'[j] \in {j, None})]_vars

\* One job runs on the instance pre-warmed for {"en"} while another, asking
\* for {"en", "fr"}, runs on one of its own.
C14_Witness ==
    /\ preload_langs = {"en"}
    /\ \E i, j \in Jobs :
          /\ langs[i] = {"en"} /\ reader[i] = Preloaded
          /\ langs[j] = {"en", "fr"} /\ reader[j] = j

\* C15: a POST /upload without a document is answered with the validation
\* error at once and changes nothing: no uid is drawn, no directory made, no
\* file written, no worker started.
C15_RejectChangesNothing ==
    [][rejected' # rejected =>
          /\ rejected' = rejected + 1
          /\ UNCHANGED <<njobs, uid, langs, upc, wpc, reader, pages, fs>>]_vars

\* A request has been rejected and there is still no job, no uid, no
\* directory, no file and no worker.
C15_Witness ==
    /\ rejected >= 1
    /\ njobs = 0
    /\ \A u \in UIDs : fs[u] = NoDir
    /\ \A j \in Jobs : uid[j] = 0 /\ wpc[j] = "none"

\* C16: when the construction of the pre-warmed engine fails at startup the
\* process goes on to serve without one, it stays without one, and every
\* job, also one that asks for exactly the configured languages, constructs
\* an engine of its own when its worker runs.
C16_PrewarmFailureNotFatal ==
    [][/\ mainpc = "boot" => mainpc' = "serving"
       /\ mainpc = "serving" => PRELOADED_READER' = PRELOADED_READER
       /\ \A j \in Jobs :
             (Resolves(j) /\ PRELOADED_READER = None) =>
                \/ reader'[j] = j /\ wpc'[j] = "open"
                \/ reader'[j] = None /\ wpc'[j] = "exc"]_vars

\* The pre-warm failed, and a job asking for exactly the configured languages
\* has reached Done with the pages of its document.
C16_Witness ==
    /\ mainpc = "serving"
    /\ PRELOADED_READER = None
    /\ \E j \in Jobs :
          /\ langs[j] = preload_langs
          /\ wpc[j] = "done"
          /\ fs[uid[j]].json = [exists |-> TRUE, by |-> j, pages |-> MaxPages]
          /\ Status(uid[j]) = "Done"

\* C19: a status request that runs concurrently with a worker never sees a
\* partly written ocr.json: whenever view() has found the file and reads it,
\* what it reads is the complete result and the answer is Done.
C19_NeverReadsPartial ==
    [][(vpc = "read" /\ vpc' = "resp") =>
          /\ fs[vuid].json.pages # Partial
          /\ vresp'.status = "Done"]_vars

\* ---------------------------------------------------------------- liveness
\* Threads are scheduled fairly and every call of the pipeline returns or
\* raises: a worker that can take a step eventually takes one.  Uploads and
\* status requests arrive or not, as the callers please.
LiveSpec == SpecView /\ \A j \in Jobs : WF_vars(WorkerStep(j))

====
